---- MODULE Spec2Model ----
(***************************************************************************)
(* Run-state orchestration of the mintory backend (apps/backend):         *)
(* the in-memory run store (simple_state.py), the LangGraph workflow      *)
(* driver and the resume endpoint (main.py), the five stage functions     *)
(* (agents/lore.py, artist.py, vote.py, mint.py) and the SSE feed.        *)
(*                                                                         *)
(* Python values are modelled as follows.  A dict is a function from its  *)
(* keys; a missing key is a key outside DOMAIN.  None is the string       *)
(* "None" for the string-valued fields (checkpoint, error) and the record *)
(* Null for the structured fields (lore, art, vote, mint, vote.result).   *)
(* str(uuid.uuid4()) is a fresh value: ts is the triple                   *)
(* <<task id, message tag, sequence number>> of the place that made it.   *)
(***************************************************************************)
EXTENDS Integers, Sequences, FiniteSets, TLC

VARIABLES
    store,        \* simple_state.run_states[run_id]; <<>> when the run has no record
    submitted,    \* history: distinct ts values handed to update_run_state, oldest first
    saved,        \* the LangGraph checkpointer's entry for thread_id = run_id
    tasks,        \* the workflow tasks: start_workflow and the continuations of resume
    mcpClient,    \* services.mcp_client._mcp_client: "unset" or "ok"
    resumeCalls,  \* number of resume requests that started a continuation (its task id)
    resp,         \* the status and body tag of the reply to the last HTTP request
    env,          \* the environment of the run: what the collaborators and the client may do
    call,         \* one call of MCPClient._make_request
    feed,         \* one GET /runs/{id}/stream connection
    mergeLog,     \* history: stages whose returned partial has been merged into the store
    otherRun      \* simple_state.run_states[other_id]: the record of a second run

vars == <<store, submitted, saved, tasks, mcpClient, resumeCalls, resp, env, call, feed,
          mergeLog, otherRun>>

-----------------------------------------------------------------------------
(* Bounds of the model *)

MaxTasks == 2          \* workflow tasks of the run that are alive at the same time
MaxResumes == 2        \* resume requests per run that start a continuation
MaxWaitPolls == 2      \* pipeline runs: polls the ledger keeps the vote open and unexpired
MaxStoreLen == 4       \* merge runs: stored messages beyond which no further merge is tried
MaxPartialLen == 2     \* merge runs: messages per partial
MaxWinners == 2        \* tally_vote names one of the first MaxWinners options as winner
MaxCursor == 2         \* feed runs: largest client-supplied last_message_index
MaxRetries == 3        \* request runs: largest max_retries a client is built with
MaxConnections == 2    \* feed runs: feeds one client opens one after the other

(* Program constants *)

max_polls == 30             \* vote.py:183
smart_completion_polls == 12 \* vote.py:265
progress_every == 6         \* vote.py:224
summary_words_limit == 200  \* lore.py:30

-----------------------------------------------------------------------------
(* Python values *)

None == "None"
Null == [kind |-> "null"]
EmptyDict == <<>>

Get(d, k, default) == IF k \in DOMAIN d THEN d[k] ELSE default

Msg(ts, agent, level) == [ts |-> ts, agent |-> agent, level |-> level]

TsOf(msgs) == [i \in DOMAIN msgs |-> msgs[i].ts]

TsSet(msgs) == {msgs[i].ts : i \in DOMAIN msgs}

-----------------------------------------------------------------------------
(* The environment of a run says what each collaborator may answer to a call
   (env.llm, env.prompts, env.image, env.client, env.start_vote, env.status,
   env.tally, env.pin, env.close, env.mint_tx, env.mkdir), how many words the
   date_label of the run may have (env.date_words), for how many polls the ledger
   may keep a vote open and unexpired or fail to answer (env.patience), which
   resume requests the client may send (env.requests; env.named: only requests
   that name the stored checkpoint; env.probes: also requests that start no
   continuation) and whether they may arrive while a workflow task is alive
   (env.race). *)

Happens(who, outcome) == outcome \in env[who]

-----------------------------------------------------------------------------
(* services/mcp_client.py: MCPClient._make_request *)

\* what one client.request(...) can do: raise httpx.RequestError, or give a
\* response with a status code and a body that is JSON or is not
Replies ==
    {[kind |-> "request_error"]}
    \cup {[kind |-> "response", status_code |-> s, body |-> "json"] :
             s \in {200, 201, 400, 401, 404, 429, 500, 502, 503}}
    \cup {[kind |-> "response", status_code |-> 200, body |-> "text"]}

\* a client that repeats the request after a server error as well
RetriedOrServerError(reply) ==
    \/ reply.kind = "request_error"
    \/ reply.kind = "response" /\ reply.status_code >= 500

\* line 187: the except clause that leads to a further attempt
Retried(reply) == reply.kind = "request_error"

\* lines 172-185: the outcome of an attempt whose request gave a response
ResponseOutcome(reply) ==
    IF reply.status_code >= 500 THEN [pc |-> "raised", value |-> "MCPServerError"]
    ELSE IF reply.status_code >= 400 THEN [pc |-> "raised", value |-> "MCPClientError"]
    ELSE IF reply.body = "json" THEN [pc |-> "returned", value |-> "json"]
    ELSE [pc |-> "raised", value |-> "MCPServerError"]

\* lines 129-156: _make_request is called on a client built with max_retries
MakeRequest ==
    /\ call.pc = "idle"
    /\ call' = [call EXCEPT !.pc = "attempt"]
    /\ UNCHANGED <<store, submitted, saved, tasks, mcpClient, resumeCalls, resp, env, feed,
                   mergeLog, otherRun>>

\* lines 157-197: one iteration of the loop up to its return, raise or sleep;
\* call.replies is the history of what the HTTP requests of this call gave
Attempt(reply) ==
    /\ call.pc = "attempt"
    /\ LET made == [call EXCEPT !.replies = Append(@, reply)]
       IN  call' = IF Retried(reply)
                   THEN IF call.attempt = call.max_retries
                        THEN [made EXCEPT !.pc = "raised", !.value = "MCPNetworkError"]
                        ELSE [made EXCEPT !.pc = "sleep"]
                   ELSE [made EXCEPT !.pc = ResponseOutcome(reply).pc,
                                     !.value = ResponseOutcome(reply).value]
    /\ UNCHANGED <<store, submitted, saved, tasks, mcpClient, resumeCalls, resp, env, feed,
                   mergeLog, otherRun>>

\* line 193 and the next value of range(self.max_retries + 1)
RetryDelay ==
    /\ call.pc = "sleep"
    /\ call' = [call EXCEPT !.pc = "attempt", !.attempt = @ + 1]
    /\ UNCHANGED <<store, submitted, saved, tasks, mcpClient, resumeCalls, resp, env, feed,
                   mergeLog, otherRun>>

-----------------------------------------------------------------------------
(* simple_state.py *)

\* a merge that appends every new message
MergeMessagesNoDedupe(current_messages, new_messages) ==
    current_messages \o new_messages

\* lines 35-38: existing_timestamps is computed once, before the loop
MergeMessages(current_messages, new_messages) ==
    LET existing_timestamps == TsSet(current_messages)
        fresh(m) == m.ts \notin existing_timestamps
    IN  current_messages \o SelectSeq(new_messages, fresh)

\* a merge that stores the partial in place of the record
ReplaceRecord(rec, updates) == updates

\* lines 18-46, on the record rec of the run (<<>> when run_id is not in run_states)
update_run_state(rec, updates) ==
    LET upd == IF "messages" \in DOMAIN updates
               THEN [updates EXCEPT !["messages"] =
                        MergeMessages(Get(rec, "messages", <<>>), updates["messages"])]
               ELSE updates
    IN  [k \in (DOMAIN rec) \cup (DOMAIN upd) |->
            IF k \in DOMAIN upd THEN upd[k] ELSE rec[k]]

\* The idiom of the stages: get_run_state(run_id).get("messages", []), append in
\* place, update_run_state(run_id, {"messages": current_messages} + extra).
\* The list appended to is the stored list itself when the record has one.
AppendInPlace(rec, msg) ==
    IF "messages" \in DOMAIN rec
    THEN [rec EXCEPT !["messages"] = Append(rec["messages"], msg)]
    ELSE rec

Flush(rec, msg, extra) ==
    LET current_messages == Append(Get(rec, "messages", <<>>), msg)
        upd == [k \in {"messages"} \cup DOMAIN extra |->
                   IF k = "messages" THEN current_messages ELSE extra[k]]
    IN  update_run_state(AppendInPlace(rec, msg), upd)

\* main.py lines 112-123 (the keys the model follows)
initial_state ==
    [lore |-> Null, art |-> Null, vote |-> Null, mint |-> Null,
     checkpoint |-> None, error |-> None, messages |-> <<>>]

-----------------------------------------------------------------------------
(* Merge runs: update_run_state applied to arbitrary partials of two runs *)

MergeTs == {<<0, "m", 1>>, <<0, "m", 2>>, <<0, "m", 3>>}

MergeMsgs == {Msg(ts, "Lore", lv) : ts \in MergeTs, lv \in {"info"}}

SeqsUpTo(S, n) == UNION {[1..k -> S] : k \in 0..n}

MergePartials ==
    {[messages |-> ms] : ms \in SeqsUpTo(MergeMsgs, MaxPartialLen)}
    \cup {[messages |-> ms, checkpoint |-> c] :
             ms \in SeqsUpTo(MergeMsgs, 1), c \in {None, "lore_approval"}}
    \cup {[error |-> e] : e \in {None, "boom"}}

RECURSIVE FirstSubmissions(_, _)
FirstSubmissions(seen, msgs) ==
    IF msgs = <<>> THEN seen
    ELSE FirstSubmissions(
            IF Head(msgs).ts \in {seen[i] : i \in DOMAIN seen}
            THEN seen ELSE Append(seen, Head(msgs).ts),
            Tail(msgs))

IdleTasks == [t \in 1..MaxTasks |-> [pc |-> "idle"]]

NoFeed == [pc |-> "closed"]

NoCall == [pc |-> "none"]

\* each of the two runs is either unknown to run_states (no record) or was created
InitMerge ==
    /\ store \in {EmptyDict, initial_state}
    /\ submitted = <<>>
    /\ saved = [exists |-> FALSE]
    /\ tasks = IdleTasks
    /\ mcpClient = "unset"
    /\ resumeCalls = 0
    /\ resp = [op |-> "none"]
    /\ env = [patience |-> 0]
    /\ call = NoCall
    /\ feed = NoFeed
    /\ mergeLog = {}
    /\ otherRun \in {EmptyDict, initial_state}

MergeCall(partial) ==
    /\ Len(Get(store, "messages", <<>>)) <= MaxStoreLen
    /\ store' = update_run_state(store, partial)
    /\ submitted' = FirstSubmissions(submitted, Get(partial, "messages", <<>>))
    /\ UNCHANGED <<saved, tasks, mcpClient, resumeCalls, resp, env, call, feed, mergeLog,
                   otherRun>>

\* the partials merged into the second run
OtherPartials ==
    {[messages |-> <<Msg(<<0, "m", 1>>, "Lore", "info")>>],
     [messages |-> <<Msg(<<0, "m", 2>>, "Lore", "info")>>, checkpoint |-> "lore_approval"],
     [error |-> "boom"]}

\* update_run_state(other_id, partial)
MergeOther(partial) ==
    /\ Len(Get(otherRun, "messages", <<>>)) < MaxPartialLen
    /\ otherRun' = update_run_state(otherRun, partial)
    /\ UNCHANGED <<store, submitted, saved, tasks, mcpClient, resumeCalls, resp, env, call,
                   feed, mergeLog>>

NextMerge ==
    \/ \E partial \in MergePartials : MergeCall(partial)
    \/ \E partial \in OtherPartials : MergeOther(partial)

SpecMerge == InitMerge /\ [][NextMerge]_vars

\* C1: after any sequence of merges the stored messages hold exactly one entry
\* per distinct ts ever submitted, in first-submission order.
C1_OneEntryPerTsInOrder == TsOf(Get(store, "messages", <<>>)) = submitted

-----------------------------------------------------------------------------
(* The LangGraph workflow of create_workflow (main.py lines 75-102) *)

\* lines 88-95: set_entry_point and the edges
NextNode(node) ==
    CASE node = "lore" -> "artist"
      [] node = "artist" -> "vote"
      [] node = "vote" -> "tally"
      [] node = "tally" -> "mint"
      [] node = "mint" -> "END"

\* line 100
interrupt_before == {"artist"}

\* line 101
interrupt_after == {"mint"}

\* state.py lines 62-75: a node's partial is written channel by channel; the
\* messages channel has the operator.add reducer, every other channel keeps the
\* last value written; keys that are no channel of RunState are dropped.
ApplyWrites(values, partial) ==
    [k \in DOMAIN values |->
        IF k \in DOMAIN partial
        THEN IF k = "messages" THEN values[k] \o partial[k] ELSE partial[k]
        ELSE values[k]]

\* a loop body that merges every key of the chunk but its messages
LoopBodyNoMessages(rec, chunk) ==
    update_run_state(rec, [k \in (DOMAIN chunk) \ {"messages"} |-> chunk[k]])

\* main.py lines 160-166 and 453-458: the body of "async for chunk in astream"
LoopBody(rec, chunk) == update_run_state(rec, chunk)

NewTask(id, pc) ==
    [id |-> id, pc |-> pc, values |-> initial_state, next |-> "lore", partial |-> EmptyDict,
     all_messages |-> <<>>, poll_count |-> 0, path |-> "", art_set |-> Null,
     datetime_bound |-> FALSE, gave_up |-> FALSE, observed |-> FALSE, last_poll |-> "none"]

Running(t) == tasks[t].pc \notin {"idle", "scheduled", "ready", "returned", "done"}

\* a stage that reports an error without a message
ErrorPartialSilent(ts, agent, error) == [error |-> error, messages |-> <<>>]

\* agents/artist.py lines 574-585, agents/vote.py lines 25-35, 135-161,
\* agents/mint.py lines 33-62: the partial update a stage returns when an
\* output of an earlier stage is missing (agents/vote.py lines 105-118: or when
\* the vote could not be created)
ErrorPartial(ts, agent, error) ==
    [error |-> error, messages |-> <<Msg(ts, agent, "error")>>]

\* the task's stage function returns partial
Return(t, partial) ==
    [tasks EXCEPT ![t].pc = "returned", ![t].partial = partial]

\* history: a collaborator call of the running stage invocation failed and the
\* stage did not repeat it
GaveUp(tsk, t, failed) ==
    [tsk EXCEPT ![t].gave_up = @ \/ failed]

\* the task has ended: astream is exhausted and the coroutine returns
DoneTask == [pc |-> "done"]

\* main.py lines 105-128: create_run schedules start_workflow and answers
CreateRun ==
    /\ tasks[1].pc = "idle"
    /\ store = EmptyDict
    /\ tasks' = [tasks EXCEPT ![1] = NewTask(0, "scheduled")]
    /\ resp' = [op |-> "create", status |-> 200]
    /\ UNCHANGED <<store, submitted, saved, mcpClient, resumeCalls, env, call, feed, mergeLog,
                   otherRun>>

\* main.py lines 131-149: store_run_state, then astream(initial_state): the input
\* is written to the channels and checkpointed, and the first "values" chunk (the
\* input itself) is merged by the loop body (line 166).
StartWorkflow ==
    /\ tasks[1].pc = "scheduled" /\ tasks[1].id = 0
    /\ store' = LoopBody(initial_state, initial_state)
    /\ saved' = [exists |-> TRUE, values |-> initial_state, next |-> "lore"]
    /\ tasks' = [tasks EXCEPT ![1].pc = "ready"]
    /\ UNCHANGED <<submitted, mcpClient, resumeCalls, resp, env, call, feed, mergeLog, otherRun>>

\* main.py lines 446-458: astream(None) resumes from the thread's checkpoint; the
\* first "values" chunk is the checkpointed state, merged by the loop body
\* (line 457); the nodes pending in the checkpoint run next, without the
\* interrupt_before check that stopped the previous run.
ContinueWorkflow(t) ==
    /\ tasks[t].pc = "scheduled" /\ tasks[t].id > 0
    /\ saved.exists
    /\ store' = LoopBody(store, saved.values)
    /\ tasks' = IF saved.next = "END"
                THEN [tasks EXCEPT ![t] = DoneTask]
                ELSE [tasks EXCEPT ![t].values = saved.values,
                                   ![t].next = saved.next,
                                   ![t].pc = "ready"]
    /\ UNCHANGED <<submitted, saved, mcpClient, resumeCalls, resp, env, call, feed, mergeLog,
                   otherRun>>

\* main.py lines 149-167 and 453-458: one turn of "async for chunk in astream":
\* the partial the node returned is written to the channels, the state is
\* checkpointed with the node to run next, the accumulated state is handed to
\* the loop body, which merges it; the graph stops at END or at an interrupt.
Superstep(t) ==
    /\ tasks[t].pc = "returned"
    /\ LET node == tasks[t].next
           values == ApplyWrites(tasks[t].values, tasks[t].partial)
           nxt == NextNode(node)
           stop == nxt = "END" \/ nxt \in interrupt_before \/ node \in interrupt_after
       IN  /\ saved' = [exists |-> TRUE, values |-> values, next |-> nxt]
           /\ store' = LoopBody(store, values)
           /\ mergeLog' = mergeLog \cup {node}
           /\ tasks' = IF stop
                       THEN [tasks EXCEPT ![t] = DoneTask]
                       ELSE [tasks EXCEPT ![t].values = values,
                                          ![t].next = nxt,
                                          ![t].partial = EmptyDict,
                                          ![t].gave_up = FALSE,
                                          ![t].datetime_bound = FALSE,
                                          ![t].observed = FALSE,
                                          ![t].last_poll = "none",
                                          ![t].pc = "ready"]
    /\ UNCHANGED <<submitted, mcpClient, resumeCalls, resp, env, call, feed, otherRun>>

\* an except clause that stores a record holding only the error
CrashHandlerErrorOnly(rec, e) == [error |-> e]

\* main.py lines 462-470: the except clause of continue_workflow_after_resume;
\* current_state is the stored dict itself
CrashHandler(rec, e) ==
    LET current_state == [k \in (DOMAIN rec) \cup {"error"} |->
                             IF k = "error" THEN e ELSE rec[k]]
    IN  update_run_state(current_state, current_state)

-----------------------------------------------------------------------------
(* agents/lore.py *)

LorePack(src) == [kind |-> "lore", src |-> src]

\* lines 71-110: the research message is flushed, then the LLM is awaited
LoreInvoke(t) ==
    /\ tasks[t].pc = "ready" /\ tasks[t].next = "lore"
    /\ store' = Flush(store, Msg(<<tasks[t].id, "lore.research", 0>>, "Lore", "info"), EmptyDict)
    /\ tasks' = [tasks EXCEPT ![t].pc = "lore.llm"]
    /\ UNCHANGED <<submitted, saved, mcpClient, resumeCalls, resp, env, call, feed, mergeLog,
                   otherRun>>

\* lines 110-174 (generate_lore_pack answered and validate_lore_pack passed) and
\* lines 176-232 (either of them raised)
LorePartial(id, llm) ==
    IF llm = "ok"
    THEN [lore |-> LorePack("llm"),
          messages |-> <<Msg(<<id, "lore.success", 0>>, "Lore", "success"),
                         Msg(<<id, "lore.content", 0>>, "Lore", "info")>>,
          checkpoint |-> "lore_approval"]
    ELSE [lore |-> LorePack("fallback"),
          messages |-> <<Msg(<<id, "lore.fallback", 0>>, "Lore", "warning")>>]

\* the word counts of the date_label a run may be created with
DateWords == {3, 68}

\* lines 182-190: the words of the fallback summary_md, which holds date_label
\* twice, for a date_label of w words
fallback_words(w) == 65 + 2 * w

\* lines 25-31 on the fallback pack, whose facts, sources and prompt_seed pass
\* the other tests of validate_lore_pack
ValidFallback(w) == fallback_words(w) <= summary_words_limit

LoreReturn(t, llm) ==
    /\ tasks[t].pc = "lore.llm"
    /\ Happens("llm", llm)
    /\ llm = "raise" => \E w \in env.date_words : ValidFallback(w)
    /\ tasks' = GaveUp(Return(t, LorePartial(tasks[t].id, llm)), t, llm = "raise")
    /\ UNCHANGED <<store, submitted, saved, mcpClient, resumeCalls, resp, env, call, feed,
                   mergeLog, otherRun>>

\* line 218: validate_lore_pack raises inside the except clause of line 176, so
\* lore_agent raises, astream raises and the except clause of start_workflow
\* (main.py lines 171-179) stores the error: error_state is a copy of
\* initial_state, the dict that store_run_state made the record
LoreRaise(t) ==
    /\ tasks[t].pc = "lore.llm"
    /\ Happens("llm", "raise")
    /\ \E w \in env.date_words : ~ValidFallback(w)
    /\ store' = CrashHandler(store, "raised")
    /\ tasks' = [tasks EXCEPT ![t] = DoneTask]
    /\ UNCHANGED <<submitted, saved, mcpClient, resumeCalls, resp, env, call, feed, mergeLog,
                   otherRun>>

-----------------------------------------------------------------------------
(* agents/artist.py: artist_agent is a plain def, so the graph runs it on a
   worker thread and its statements interleave with the event loop *)

ArtSet(cids) == [kind |-> "art", cids |-> cids]

\* lines 768-774
FallbackCids ==
    <<"ipfs://fallback_placeholder_1", "ipfs://fallback_placeholder_2",
      "ipfs://fallback_placeholder_3", "ipfs://fallback_placeholder_4">>

\* lines 567-611
ArtistInvoke(t) ==
    /\ tasks[t].pc = "ready" /\ tasks[t].next = "artist"
    /\ IF tasks[t].values.lore = Null
       THEN /\ tasks' = Return(t, ErrorPartial(<<tasks[t].id, "artist.nolore", 0>>, "Artist",
                                               "No lore data available for art generation"))
            /\ UNCHANGED store
       ELSE LET start_message == Msg(<<tasks[t].id, "artist.start", 0>>, "Artist", "info")
            IN  /\ store' = Flush(store, start_message, EmptyDict)
                /\ tasks' = [tasks EXCEPT ![t].pc = "artist.prompts",
                                          ![t].all_messages = <<start_message>>]
    /\ UNCHANGED <<submitted, saved, mcpClient, resumeCalls, resp, env, call, feed, mergeLog,
                   otherRun>>

\* lines 617-648 (create_image_prompts answered: the progress message is flushed)
\* and lines 764-802 (it raised: fallback art set, the warning is appended to
\* the stored list; the update that carries the art set is ArtistFinal)
ArtistPrompts(t, prompts) ==
    /\ tasks[t].pc = "artist.prompts"
    /\ Happens("mkdir", "ok")
    /\ Happens("prompts", prompts)
    /\ IF prompts = "ok"
       THEN LET progress_message == Msg(<<tasks[t].id, "artist.progress", 1>>, "Artist", "info")
            IN  /\ store' = Flush(store, progress_message, EmptyDict)
                /\ tasks' = [tasks EXCEPT
                       ![t].pc = "artist.gen",
                       ![t].all_messages = Append(@, progress_message)]
       ELSE LET error_message == Msg(<<tasks[t].id, "artist.fallback", 0>>, "Artist", "warning")
            IN  /\ store' = AppendInPlace(store, error_message)
                /\ tasks' = [tasks EXCEPT
                       ![t].pc = "artist.final",
                       ![t].gave_up = TRUE,
                       ![t].art_set = ArtSet(FallbackCids),
                       ![t].all_messages = Append(@, error_message)]
    /\ UNCHANGED <<submitted, saved, mcpClient, resumeCalls, resp, env, call, feed, mergeLog,
                   otherRun>>

\* lines 614-615 are outside the try of line 617: when mkdir raises, the stage
\* raises, astream raises and the driver's except clause stores the error.
\* The artist stage only ever runs in a continuation.
ArtistRaise(t) ==
    /\ tasks[t].pc = "artist.prompts"
    /\ Happens("mkdir", "raise")
    /\ store' = CrashHandler(store, "raised")
    /\ tasks' = [tasks EXCEPT ![t] = DoneTask]
    /\ UNCHANGED <<submitted, saved, mcpClient, resumeCalls, resp, env, call, feed, mergeLog,
                   otherRun>>

\* lines 650-754: the image is generated and pinned (completion message) or one
\* of the calls raised (placeholder cids, warning message); then the art set is
\* built and the final message is appended to the stored list
ArtistGen(t, image) ==
    /\ tasks[t].pc = "artist.gen"
    /\ Happens("image", image)
    /\ LET step_message == IF image = "ok"
                           THEN Msg(<<tasks[t].id, "artist.image", 1>>, "Artist", "success")
                           ELSE Msg(<<tasks[t].id, "artist.image", 1>>, "Artist", "warning")
           final_message == Msg(<<tasks[t].id, "artist.done", 0>>, "Artist", "success")
           cids == IF image = "ok" THEN <<"ipfs://img1">>
                   ELSE <<"ipfs://placeholder_art_1">>
       IN  /\ store' = AppendInPlace(Flush(store, step_message, EmptyDict), final_message)
           /\ tasks' = [tasks EXCEPT
                  ![t].pc = "artist.final",
                  ![t].gave_up = image = "raise",
                  ![t].art_set = ArtSet(cids),
                  ![t].all_messages = @ \o <<step_message, final_message>>]
    /\ UNCHANGED <<submitted, saved, mcpClient, resumeCalls, resp, env, call, feed, mergeLog,
                   otherRun>>

\* lines 756-759 and 805-808 (the update with messages and art), lines 811-816
ArtistFinal(t) ==
    /\ tasks[t].pc = "artist.final"
    /\ store' = update_run_state(store,
                   [messages |-> IF "messages" \in DOMAIN store
                                 THEN store["messages"]
                                 ELSE <<tasks[t].all_messages[Len(tasks[t].all_messages)]>>,
                    art |-> tasks[t].art_set])
    /\ tasks' = Return(t, [art |-> tasks[t].art_set, messages |-> tasks[t].all_messages])
    /\ UNCHANGED <<submitted, saved, mcpClient, resumeCalls, resp, env, call, feed, mergeLog,
                   otherRun>>

-----------------------------------------------------------------------------
(* agents/vote.py: vote_agent *)

VoteIds == {"0xv1", ""}

\* lines 22-39
VoteInvoke(t) ==
    /\ tasks[t].pc = "ready" /\ tasks[t].next = "vote"
    /\ IF Get(tasks[t].values.art, "cids", <<>>) = <<>>
       THEN tasks' = Return(t, ErrorPartial(<<tasks[t].id, "vote.noart", 0>>, "Vote",
                                            "No art data available for voting"))
       ELSE tasks' = [tasks EXCEPT ![t].pc = "vote.start"]
    /\ UNCHANGED <<store, submitted, saved, mcpClient, resumeCalls, resp, env, call, feed,
                   mergeLog, otherRun>>

\* services/mcp_client.py lines 444-455: the singleton is built on first use;
\* building it raises when MCP_TIMEOUT is no number
ClientOutcomes == IF mcpClient = "ok" THEN {"ok"} ELSE {"ok", "raise"}

\* lines 42-103 (start_vote answered) and lines 105-118 (get_mcp_client or
\* start_vote raised)
VoteReturn(t, client, vote_id) ==
    /\ tasks[t].pc = "vote.start"
    /\ client \in ClientOutcomes
    /\ Happens("client", client)
    /\ Happens("start_vote", vote_id)
    /\ mcpClient' = IF client = "ok" THEN "ok" ELSE mcpClient
    /\ IF client = "ok" /\ vote_id # "raise"
       THEN tasks' = Return(t,
                [vote |-> [kind |-> "vote", id |-> vote_id, result |-> Null],
                 checkpoint |-> "vote_tx_approval",
                 messages |-> <<Msg(<<tasks[t].id, "vote.created", 0>>, "Vote", "info")>>])
       ELSE tasks' = GaveUp(Return(t,
                ErrorPartial(<<tasks[t].id, "vote.failed", 0>>, "Vote", "Vote creation failed")),
                t, TRUE)
    /\ UNCHANGED <<store, submitted, saved, resumeCalls, resp, env, call, feed, mergeLog,
                   otherRun>>

-----------------------------------------------------------------------------
(* agents/vote.py: tally_vote_agent *)

\* dict.copy() followed by item assignments
Updated(d, upd) ==
    [k \in (DOMAIN d) \cup (DOMAIN upd) |-> IF k \in DOMAIN upd THEN upd[k] ELSE d[k]]

RECURSIVE SumValues(_)
SumValues(f) ==
    IF DOMAIN f = {} THEN 0
    ELSE LET k == CHOOSE x \in DOMAIN f : TRUE
         IN  f[k] + SumValues([x \in (DOMAIN f) \ {k} |-> f[x]])

VoteResult(winner_cid, tally, participation) ==
    [kind |-> "result", winner_cid |-> winner_cid, tally |-> tally,
     participation |-> participation]

\* a fallback result that counts no vote
FallbackResultNoVote(winner_cid) == VoteResult(winner_cid, <<>>, 0)

\* lines 298-303, 317-322, 361-365: the index-0 result
FallbackResult(winner_cid) == VoteResult(winner_cid, ("0" :> 1), 1)

\* get_vote_status: a VoteStatus or an exception.  ends is the ends_at of the
\* reply: an ISO string of a moment that has passed ("past") or not ("future"),
\* a string that is no ISO date ("unparseable"), or an integer timestamp
\* ("int_past", "int_future").
StatusError == [kind |-> "error"]

EndsAt == {"past", "future", "unparseable", "int_past", "int_future"}

StatusReplies ==
    {[kind |-> "status", open |-> o, tallies |-> tl, ends |-> e] :
        o \in BOOLEAN, tl \in {<<>>, <<0, 0>>, <<0, 2>>}, e \in EndsAt}
    \cup {StatusError}

\* line 262: any(count > 0 for count in tallies), on a non-empty list
HasVotes(tallies) == \E i \in DOMAIN tallies : tallies[i] > 0

\* line 202 makes datetime a local name of tally_vote_agent, bound only once a
\* string ends_at has been handled: for an integer ends_at line 213 raises
\* UnboundLocalError before that, which line 243 takes for a failed query
PollError(reply, datetime_bound) ==
    \/ reply.kind = "error"
    \/ reply.open /\ reply.ends \in {"int_past", "int_future"} /\ ~datetime_bound

\* lines 193-195 and 215-217: the reply that ends the loop
Breaks(reply, datetime_bound) ==
    /\ ~PollError(reply, datetime_bound)
    /\ \/ ~reply.open
       \/ reply.ends \in {"past", "int_past"}

\* a reply that keeps the loop of lines 185-251 going
KeepsWaiting(reply, datetime_bound) == ~Breaks(reply, datetime_bound)

\* a reply of the case "open, no vote cast, ends_at already passed"
QuietReply(reply) ==
    /\ reply.kind = "status"
    /\ reply.open /\ ~HasVotes(reply.tallies) /\ reply.ends \in {"past", "int_past"}

\* history: what the status query of one pass through the loop came to: the
\* query failed, the reply ended the loop, or the loop went on with a vote that
\* is open and has a nonzero count ("votes") or none ("quiet")
PollKind(reply, datetime_bound) ==
    IF PollError(reply, datetime_bound) THEN "failed"
    ELSE IF Breaks(reply, datetime_bound) THEN "ended"
    ELSE IF HasVotes(reply.tallies) THEN "votes"
    ELSE "quiet"

\* history: a status reply of the loop reported the vote closed or a nonzero count
Observed(reply) ==
    reply.kind = "status" /\ (~reply.open \/ HasVotes(reply.tallies))

\* a loop that a failed query ends
BreakAfterError(poll_count) == FALSE

\* lines 246-251: after a failed query the loop goes on unless this was the
\* last poll
RetryAfterError(poll_count) == poll_count < max_polls

\* the loop test with the bound included
PollAgainInclusive(poll_count) == poll_count <= max_polls

\* line 185: "while poll_count < max_polls", after the increment of line 186
PollAgain(poll_count) == poll_count < max_polls

\* an except clause that reports the failure and resolves nothing
EmergencyPartialUnresolved(id, vote, art) ==
    [error |-> "raised",
     messages |-> <<Msg(<<id, "tally.emergency", 0>>, "Vote", "error")>>]

\* lines 347-375
EmergencyPartial(id, vote, art) ==
    LET cids == Get(art, "cids", <<>>)
        winner_cid == IF cids # <<>> THEN cids[1] ELSE "unknown"
    IN  [vote |-> Updated(vote, [result |-> FallbackResult(winner_cid),
                                 fallback |-> TRUE,
                                 error |-> "raised"]),
         messages |-> <<Msg(<<id, "tally.emergency", 0>>, "Vote", "error")>>]

\* lines 132-185: the checks, get_mcp_client, the start message and the first
\* pass through "while poll_count < max_polls" up to the status query
TallyInvoke(t, client) ==
    /\ tasks[t].pc = "ready" /\ tasks[t].next = "tally"
    /\ client \in ClientOutcomes
    /\ Happens("client", client)
    /\ LET vote == tasks[t].values.vote
           art == tasks[t].values.art
           start_message == Msg(<<tasks[t].id, "tally.start", 0>>, "Vote", "info")
       IN  IF vote = Null \/ art = Null
           THEN /\ tasks' = Return(t, ErrorPartial(<<tasks[t].id, "tally.missing", 0>>, "Vote",
                                                   "Missing vote or art data for tally"))
                /\ UNCHANGED <<store, mcpClient>>
           ELSE IF vote.id = ""
           THEN /\ tasks' = Return(t, ErrorPartial(<<tasks[t].id, "tally.noid", 0>>, "Vote",
                                                   "Vote ID missing"))
                /\ UNCHANGED <<store, mcpClient>>
           ELSE IF client = "raise"
           THEN /\ tasks' = GaveUp(Return(t, EmergencyPartial(tasks[t].id, vote, art)),
                                   t, TRUE)
                /\ UNCHANGED <<store, mcpClient>>
           ELSE /\ mcpClient' = "ok"
                /\ store' = Flush(store, start_message, EmptyDict)
                /\ tasks' = [tasks EXCEPT ![t].pc = "tally.poll",
                                          ![t].all_messages = <<start_message>>,
                                          ![t].poll_count = 1]
    /\ UNCHANGED <<submitted, saved, resumeCalls, resp, env, call, feed, mergeLog, otherRun>>

\* lines 185-251: the reply of one status query, and on to the next query or
\* out of the loop
TallyPoll(t, reply) ==
    /\ tasks[t].pc = "tally.poll"
    /\ Happens("status", reply)
    /\ KeepsWaiting(reply, tasks[t].datetime_bound) => tasks[t].poll_count <= env.patience
    /\ LET poll_count == tasks[t].poll_count
           failed == PollError(reply, tasks[t].datetime_bound)
           progress_message == Msg(<<tasks[t].id, "tally.progress", poll_count>>, "Vote", "info")
           progress == ~failed /\ poll_count % progress_every = 0
           \* line 246 for a failed query, line 185 after the sleep of line 240
           again == IF failed THEN RetryAfterError(poll_count) ELSE PollAgain(poll_count)
           \* line 202
           bound == tasks[t].datetime_bound
                    \/ (reply.kind = "status" /\ reply.open
                        /\ reply.ends \in {"past", "future", "unparseable"})
       IN  IF KeepsWaiting(reply, tasks[t].datetime_bound)
           THEN /\ store' = IF progress THEN Flush(store, progress_message, EmptyDict)
                            ELSE store
                /\ tasks' = [tasks EXCEPT
                       ![t].pc = IF again THEN "tally.poll" ELSE "tally.final",
                       ![t].poll_count = IF again THEN poll_count + 1 ELSE poll_count,
                       ![t].datetime_bound = bound,
                       ![t].observed = @ \/ Observed(reply),
                       ![t].last_poll = PollKind(reply, tasks[t].datetime_bound),
                       ![t].gave_up = @ \/ (failed /\ ~again),
                       ![t].all_messages = IF progress THEN Append(@, progress_message)
                                           ELSE @]
           ELSE /\ store' = store
                /\ tasks' = [tasks EXCEPT ![t].pc = "tally.final",
                                          ![t].observed = @ \/ Observed(reply),
                                          ![t].last_poll = "ended",
                                          ![t].datetime_bound = bound]
    /\ UNCHANGED <<submitted, saved, mcpClient, resumeCalls, resp, env, call, feed, mergeLog,
                   otherRun>>

\* lines 253-270 and, when the vote did not end naturally, lines 313-345
TallyFinal(t, reply) ==
    /\ tasks[t].pc = "tally.final"
    /\ Happens("status", reply)
    /\ LET vote == tasks[t].values.vote
           art == tasks[t].values.art
           ok == reply.kind = "status"
           ended == ok /\ ~reply.open
           has_votes == ok /\ reply.tallies # <<>> /\ HasVotes(reply.tallies)
           vote_ended_naturally ==
               ended \/ (ok /\ has_votes /\ tasks[t].poll_count >= smart_completion_polls)
           completion_message == Msg(<<tasks[t].id, "tally.timeout", 0>>, "Vote", "warning")
       IN  IF vote_ended_naturally
           THEN tasks' = [tasks EXCEPT ![t].pc = "tally.tally"]
           ELSE IF art.cids = <<>>
           THEN tasks' = GaveUp(Return(t, EmergencyPartial(tasks[t].id, vote, art)), t, ~ok)
           ELSE tasks' = GaveUp(Return(t,
                    [vote |-> Updated(vote, [result |-> FallbackResult(art.cids[1]),
                                             fallback |-> TRUE]),
                     messages |-> Append(tasks[t].all_messages, completion_message)]),
                    t, ~ok)
    /\ UNCHANGED <<store, submitted, saved, mcpClient, resumeCalls, resp, env, call, feed,
                   mergeLog, otherRun>>

\* tally_vote: a TallyResult or an exception
TallyError == [kind |-> "error"]

\* winner: the place in art.cids of the cid the ledger names as winner
TallyReplies ==
    {[kind |-> "tally", winner |-> i, tally |-> tl] :
        i \in 1..MaxWinners, tl \in {<<>>, ("0" :> 1) @@ ("1" :> 2)}}
    \cup {TallyError}

WinnerCid(reply, cids) ==
    IF reply.winner \in DOMAIN cids THEN cids[reply.winner] ELSE "ipfs://other"

\* lines 272-311 and 332-345
TallyVoteReturn(t, reply) ==
    /\ tasks[t].pc = "tally.tally"
    /\ Happens("tally", reply)
    /\ LET vote == tasks[t].values.vote
           art == tasks[t].values.art
       IN  IF reply.kind = "tally"
           THEN tasks' = Return(t,
                   [vote |-> Updated(vote,
                               [result |-> VoteResult(WinnerCid(reply, art.cids),
                                                      reply.tally,
                                                      SumValues(reply.tally))]),
                    messages |-> Append(tasks[t].all_messages,
                                   Msg(<<tasks[t].id, "tally.done", 0>>, "Vote", "success"))])
           ELSE IF art.cids = <<>>
           THEN tasks' = GaveUp(Return(t, EmergencyPartial(tasks[t].id, vote, art)), t, TRUE)
           ELSE tasks' = GaveUp(Return(t,
                   [vote |-> Updated(vote, [result |-> FallbackResult(art.cids[1])]),
                    messages |-> Append(tasks[t].all_messages,
                                   Msg(<<tasks[t].id, "tally.done", 0>>, "Vote", "warning"))]),
                   t, TRUE)
    /\ UNCHANGED <<store, submitted, saved, mcpClient, resumeCalls, resp, env, call, feed,
                   mergeLog, otherRun>>

-----------------------------------------------------------------------------
(* agents/mint.py: mint_agent *)

MintReceipt == [kind |-> "mint", tx_hash |-> "", token_id |-> "", token_uri |-> "ipfs://meta"]

\* lines 308-321
MintFailed(id) ==
    [error |-> "Mint preparation failed",
     messages |-> <<Msg(<<id, "mint.failed", 0>>, "Mint", "error")>>]

\* lines 23-127: the checks, the start and pin messages, get_mcp_client and the
\* call of pin_metadata
MintInvoke(t, client) ==
    /\ tasks[t].pc = "ready" /\ tasks[t].next = "mint"
    /\ client \in ClientOutcomes
    /\ Happens("client", client)
    /\ LET lore == tasks[t].values.lore
           vote == tasks[t].values.vote
           art == tasks[t].values.art
           start_message == Msg(<<tasks[t].id, "mint.start", 0>>, "Mint", "info")
           pin_message == Msg(<<tasks[t].id, "mint.pin", 0>>, "Mint", "info")
           flushed == Flush(Flush(store, start_message, EmptyDict), pin_message, EmptyDict)
       IN  IF lore = Null
           THEN /\ tasks' = Return(t, ErrorPartial(<<tasks[t].id, "mint.nolore", 0>>, "Mint",
                                                   "Missing lore data for mint"))
                /\ UNCHANGED <<store, mcpClient>>
           ELSE IF vote = Null \/ Get(vote, "result", Null) = Null
           THEN /\ tasks' = Return(t, ErrorPartial(<<tasks[t].id, "mint.novote", 0>>, "Mint",
                                                   "Missing vote result for mint"))
                /\ UNCHANGED <<store, mcpClient>>
           ELSE IF Get(art, "cids", <<>>) = <<>>
           THEN /\ tasks' = Return(t, ErrorPartial(<<tasks[t].id, "mint.noart", 0>>, "Mint",
                                                   "Missing art data for mint"))
                /\ UNCHANGED <<store, mcpClient>>
           ELSE IF client = "raise"
           THEN /\ store' = flushed
                /\ tasks' = GaveUp(Return(t, MintFailed(tasks[t].id)), t, TRUE)
                /\ UNCHANGED mcpClient
           ELSE /\ store' = flushed
                /\ mcpClient' = "ok"
                /\ tasks' = [tasks EXCEPT ![t].pc = "mint.pin",
                                          ![t].all_messages = <<start_message, pin_message>>]
    /\ UNCHANGED <<submitted, saved, resumeCalls, resp, env, call, feed, mergeLog, otherRun>>

\* lines 127-162: pin_metadata answered or raised; the tx message, the vote id
\* checks and the call of create_close_vote_transaction
MintPin(t, pin) ==
    /\ tasks[t].pc = "mint.pin"
    /\ Happens("pin", pin)
    /\ LET tx_message == Msg(<<tasks[t].id, "mint.tx", 0>>, "Mint", "info")
       IN  IF pin = "raise"
           THEN /\ tasks' = GaveUp(Return(t, MintFailed(tasks[t].id)), t, TRUE)
                /\ UNCHANGED store
           ELSE /\ store' = Flush(store, tx_message, EmptyDict)
                /\ IF tasks[t].values.vote.id = ""
                   THEN tasks' = Return(t, MintFailed(tasks[t].id))
                   ELSE tasks' = [tasks EXCEPT ![t].pc = "mint.close",
                                               ![t].all_messages = Append(@, tx_message)]
    /\ UNCHANGED <<submitted, saved, mcpClient, resumeCalls, resp, env, call, feed, mergeLog,
                   otherRun>>

\* lines 161-168, 209-223, 261: the answer of create_close_vote_transaction
\* ("skip": vote already closed, "tx": a close transaction, "raise") and the
\* call of create_mint_transaction that follows on each of the three paths
MintClose(t, close) ==
    /\ tasks[t].pc = "mint.close"
    /\ Happens("close", close)
    /\ tasks' = [tasks EXCEPT ![t].pc = "mint.mint", ![t].path = close,
                              ![t].gave_up = close = "raise"]
    /\ UNCHANGED <<store, submitted, saved, mcpClient, resumeCalls, resp, env, call, feed,
                   mergeLog, otherRun>>

\* lines 168-206 (path "skip"), 223-258 (path "raise"), 261-306 (path "tx"),
\* 308-321 (create_mint_transaction raised)
MintPartial(id, path, all_messages) ==
    LET checkpoint_message == Msg(<<id, "mint.ready", 0>>, "Mint", "info")
    IN  [mint |-> MintReceipt,
         checkpoint |-> IF path = "tx" THEN "close_vote" ELSE "finalize_mint",
         messages |-> Append(all_messages, checkpoint_message)]

MintTx(t, tx) ==
    /\ tasks[t].pc = "mint.mint"
    /\ Happens("mint_tx", tx)
    /\ IF tx = "raise" /\ tasks[t].path = "skip"
       THEN \* line 168 is inside the try of line 161: line 219 catches, line 223 calls again
            tasks' = [tasks EXCEPT ![t].path = "raise"]
       ELSE IF tx = "raise"
       THEN tasks' = GaveUp(Return(t, MintFailed(tasks[t].id)), t, TRUE)
       ELSE tasks' = Return(t, MintPartial(tasks[t].id, tasks[t].path, tasks[t].all_messages))
    /\ UNCHANGED <<store, submitted, saved, mcpClient, resumeCalls, resp, env, call, feed,
                   mergeLog, otherRun>>

-----------------------------------------------------------------------------
(* main.py: resume_run, lines 390-443 *)

ReqCheckpoints == {"lore_approval", "vote_tx_approval", "close_vote", "finalize_mint"}

Decisions == {"approve", "edit", "finalize"}

Payloads == {EmptyDict, [lore |-> LorePack("edited")]}

\* lines 404-427 on current_state, which is the stored dict itself
Decide(current_state, checkpoint, decision, payload, ts) ==
    IF checkpoint = "lore_approval" /\ decision = "approve"
    THEN [current_state EXCEPT !["checkpoint"] = None]
    ELSE IF checkpoint = "lore_approval" /\ decision = "edit"
    THEN [Updated(current_state, payload) EXCEPT !["checkpoint"] = None]
    ELSE IF checkpoint = "finalize_mint" /\ decision = "finalize"
    THEN [Updated(current_state,
                  [messages |-> Append(Get(current_state, "messages", <<>>),
                                       Msg(ts, "System", "info"))])
            EXCEPT !["checkpoint"] = None]
    ELSE current_state

Requests ==
    [checkpoint : ReqCheckpoints, decision : Decisions, payload : Payloads]

\* a handler without the test of line 401
NoCheckpointUntested(rec) == FALSE

\* lines 400-401: "if not checkpoint"
NoCheckpoint(rec) == Get(rec, "checkpoint", None) = None

\* lines 390-443 as a function of the stored record and the request: the
\* record after the call, whether continue_workflow_after_resume was scheduled
\* (line 435) and the reply
resume_run(rec, request, ts) ==
    IF rec = EmptyDict
    THEN \* line 398, turned into a 500 by line 443
         [store |-> rec, scheduled |-> FALSE,
          reply |-> [status |-> 500, body |-> "404: Run not found"]]
    ELSE IF NoCheckpoint(rec)
    THEN \* line 402
         [store |-> rec, scheduled |-> FALSE,
          reply |-> [status |-> 200, body |-> "already_completed", state |-> rec]]
    ELSE IF request.checkpoint = "finalize_mint" /\ request.decision # "finalize"
    THEN \* line 427, turned into a 500 by line 443
         [store |-> rec, scheduled |-> FALSE,
          reply |-> [status |-> 500, body |-> "400: Invalid decision for finalize_mint"]]
    ELSE \* lines 430-440
         LET current_state == Decide(rec, request.checkpoint, request.decision,
                                     request.payload, ts)
         IN  [store |-> update_run_state(current_state, current_state),
              scheduled |-> TRUE,
              reply |-> [status |-> 200, body |-> "resumed"]]

\* lines 182-194 as a function of the stored record: the 404 of line 189 is
\* raised inside the try and turned into a 500 by line 194
get_run(rec) ==
    IF rec = EmptyDict
    THEN [status |-> 500, body |-> "404: Run not found"]
    ELSE [status |-> 200, body |-> "state"]

\* GET /runs/{run_id}
GetRun ==
    /\ env.probes
    /\ resp' = [op |-> "get", status |-> get_run(store).status, body |-> get_run(store).body]
    /\ UNCHANGED <<store, submitted, saved, tasks, mcpClient, resumeCalls, env, call, feed,
                   mergeLog, otherRun>>

\* a finished task leaves its slot to the next one
FreeTasks == {t \in 1..MaxTasks : tasks[t].pc \in {"idle", "done"}}

\* the ts of the "System" message of line 418
SystemTs == <<0, "system.finalize", resumeCalls + 1>>

\* POST /runs/{run_id}/resume
Resume(request) ==
    LET r == resume_run(store, request, SystemTs)
    IN  /\ store' = r.store
        /\ resp' = [op |-> "resume", status |-> r.reply.status, body |-> r.reply.body]
        /\ request \in env.requests
        /\ env.named => request.checkpoint = Get(store, "checkpoint", None)
        /\ env.probes \/ r.scheduled
        /\ IF r.scheduled
           THEN /\ resumeCalls < MaxResumes
                /\ FreeTasks # {}
                /\ env.race \/ FreeTasks = 1..MaxTasks
                /\ resumeCalls' = resumeCalls + 1
                /\ LET t == CHOOSE x \in FreeTasks : \A y \in FreeTasks : x <= y
                   IN  tasks' = [tasks EXCEPT ![t] = NewTask(resumeCalls + 1, "scheduled")]
           ELSE UNCHANGED <<tasks, resumeCalls>>
        /\ UNCHANGED <<submitted, saved, mcpClient, env, call, feed, mergeLog, otherRun>>

-----------------------------------------------------------------------------
(* Environments *)

Outcomes == {"ok", "raise"}

\* every answer of every collaborator, every request at any time the run has no
\* live workflow task
AnyEnv ==
    [llm |-> Outcomes, prompts |-> Outcomes, image |-> Outcomes, client |-> Outcomes,
     start_vote |-> VoteIds \cup {"raise"}, status |-> StatusReplies,
     tally |-> TallyReplies, pin |-> Outcomes, close |-> {"skip", "tx", "raise"},
     mint_tx |-> Outcomes, mkdir |-> Outcomes, date_words |-> DateWords,
     patience |-> MaxWaitPolls, requests |-> Requests,
     named |-> FALSE, probes |-> TRUE, race |-> FALSE]

PipelineEnv == AnyEnv

\* the image prompts and the ledger are down; the client resumes at any time
RaceEnv ==
    [AnyEnv EXCEPT !.llm = {"ok"}, !.prompts = {"raise"}, !.client = {"ok"},
                   !.mkdir = {"ok"}, !.date_words = {3},
                   !.start_vote = {"raise"}, !.patience = 0, !.probes = FALSE,
                   !.race = TRUE]

\* every collaborator answers, the vote is closed with votes cast; the client
\* approves the lore and finalizes the mint
FeedEnv ==
    [AnyEnv EXCEPT !.llm = {"ok"}, !.prompts = {"ok"}, !.image = {"ok"}, !.client = {"ok"},
                   !.start_vote = {"0xv1"},
                   !.status = {[kind |-> "status", open |-> FALSE, tallies |-> <<0, 2>>,
                                ends |-> "past"]},
                   !.tally = {[kind |-> "tally", winner |-> 1,
                               tally |-> ("0" :> 1) @@ ("1" :> 2)]},
                   !.pin = {"ok"}, !.close = {"skip", "tx"}, !.mint_tx = {"ok"},
                   !.mkdir = {"ok"}, !.date_words = {3},
                   !.patience = 0,
                   !.requests = {[checkpoint |-> "lore_approval", decision |-> "approve",
                                  payload |-> EmptyDict],
                                 [checkpoint |-> "finalize_mint", decision |-> "finalize",
                                  payload |-> EmptyDict]},
                   !.named = TRUE, !.probes = FALSE]

\* the ledger may keep the vote open for all max_polls polls
TallyEnv == [AnyEnv EXCEPT !.patience = max_polls, !.probes = FALSE]

\* every status reply is "open, no vote cast, ends_at already passed"
QuietEnv == [TallyEnv EXCEPT !.status = {reply \in StatusReplies : QuietReply(reply)}]

-----------------------------------------------------------------------------
(* The pipeline: one run, its workflow tasks and the resume requests *)

\* no run has been created
Init ==
    /\ store = EmptyDict
    /\ submitted = <<>>
    /\ saved = [exists |-> FALSE]
    /\ tasks = IdleTasks
    /\ mcpClient = "unset"
    /\ resumeCalls = 0
    /\ resp = [op |-> "none"]
    /\ env = PipelineEnv
    /\ call = NoCall
    /\ feed = NoFeed
    /\ mergeLog = {}
    /\ otherRun = EmptyDict

StageStep(t) ==
    \/ LoreInvoke(t)
    \/ \E llm \in Outcomes : LoreReturn(t, llm)
    \/ LoreRaise(t)
    \/ ArtistInvoke(t)
    \/ ArtistRaise(t)
    \/ \E prompts \in Outcomes : ArtistPrompts(t, prompts)
    \/ \E image \in Outcomes : ArtistGen(t, image)
    \/ ArtistFinal(t)
    \/ VoteInvoke(t)
    \/ \E client \in Outcomes, vote_id \in VoteIds \cup {"raise"} :
          VoteReturn(t, client, vote_id)
    \/ \E client \in Outcomes : TallyInvoke(t, client)
    \/ \E reply \in StatusReplies : TallyPoll(t, reply)
    \/ \E reply \in StatusReplies : TallyFinal(t, reply)
    \/ \E reply \in TallyReplies : TallyVoteReturn(t, reply)
    \/ \E client \in Outcomes : MintInvoke(t, client)
    \/ \E pin \in Outcomes : MintPin(t, pin)
    \/ \E close \in {"skip", "tx", "raise"} : MintClose(t, close)
    \/ \E tx \in Outcomes : MintTx(t, tx)

TaskStep(t) ==
    \/ ContinueWorkflow(t)
    \/ Superstep(t)
    \/ StageStep(t)

\* the stage steps of a run whose image prompts and ledger are down
RaceStageStep(t) ==
    \/ LoreInvoke(t)
    \/ \E llm \in Outcomes : LoreReturn(t, llm)
    \/ ArtistInvoke(t)
    \/ \E prompts \in Outcomes : ArtistPrompts(t, prompts)
    \/ ArtistFinal(t)
    \/ VoteInvoke(t)
    \/ \E client \in Outcomes : VoteReturn(t, client, "raise")
    \/ \E client \in Outcomes : TallyInvoke(t, client)
    \/ \E client \in Outcomes : MintInvoke(t, client)

Next ==
    \/ CreateRun
    \/ StartWorkflow
    \/ \E t \in 1..MaxTasks : TaskStep(t)
    \/ \E request \in Requests : Resume(request)
    \/ GetRun

Spec == Init /\ [][Next]_vars

InitRace ==
    /\ store = EmptyDict
    /\ submitted = <<>>
    /\ saved = [exists |-> FALSE]
    /\ tasks = IdleTasks
    /\ mcpClient = "unset"
    /\ resumeCalls = 0
    /\ resp = [op |-> "none"]
    /\ env = RaceEnv
    /\ call = NoCall
    /\ feed = NoFeed
    /\ mergeLog = {}
    /\ otherRun = EmptyDict

NextRace ==
    \/ CreateRun
    \/ StartWorkflow
    \/ \E t \in 1..MaxTasks : ContinueWorkflow(t) \/ Superstep(t) \/ RaceStageStep(t)
    \/ \E request \in Requests : Resume(request)

SpecRace == InitRace /\ [][NextRace]_vars

-----------------------------------------------------------------------------
(* main.py: stream_run.event_generator, lines 197-387: one feed of the run *)

StateKeys == {"lore", "art", "vote", "mint", "error", "checkpoint"}

NoneOf(key) == IF key \in {"error", "checkpoint"} THEN None ELSE Null

\* dict.get(key)
Field(rec, key) == Get(rec, key, NoneOf(key))

\* lines 322-326 and 334-338: the keys whose value is not None
Snapshot(rec) ==
    [key \in {k \in StateKeys : Field(rec, k) # NoneOf(k)} |-> rec[key]]

\* lines 305-315
state_changed(rec, last_state) ==
    \E key \in StateKeys : Field(rec, key) # Field(last_state, key)

\* lines 214 and 347
IsComplete(rec) == Field(rec, "mint") # Null /\ Field(rec, "error") = None

\* lines 244 and 361
HasError(rec) == Field(rec, "error") # None

\* lines 219-220 and 249-250
Unseen(messages, last_message_index) ==
    SubSeq(messages, last_message_index + 1, Len(messages))

OpenFeed(c) ==
    [pc |-> "poll", cursor |-> c, last_message_count |-> c, current_message_count |-> 0,
     emitted |-> <<>>, last_state |-> EmptyDict, terminal |-> "none",
     earlier |-> <<>>, connection |-> 1]

\* lines 347-371: the complete event, the error event, or the sleep before the
\* next poll
TerminalCheck(f, rec) ==
    IF IsComplete(rec) THEN [f EXCEPT !.pc = "ended", !.terminal = "complete"]
    ELSE IF HasError(rec) THEN [f EXCEPT !.pc = "ended", !.terminal = "error"]
    ELSE [f EXCEPT !.pc = "poll"]

\* lines 303-345: a state event is yielded when a state key changed; without
\* one the generator goes on to lines 347-371 at once
StateCheck(f, rec) ==
    IF state_changed(rec, f.last_state)
    THEN [f EXCEPT !.pc = "terminal", !.last_state = Snapshot(rec)]
    ELSE TerminalCheck(f, rec)

\* lines 205-266: the request arrives with last_message_index = c
Serve(opened, rec) ==
    LET messages == Get(rec, "messages", <<>>)
        served == [opened EXCEPT !.pc = "ended",
                                 !.emitted = TsOf(Unseen(messages, opened.cursor))]
    IN  IF rec = EmptyDict
        THEN [opened EXCEPT !.pc = "ended", !.terminal = "error"]
        ELSE IF IsComplete(rec)
        THEN [served EXCEPT !.terminal = "complete"]
        ELSE IF HasError(rec)
        THEN [served EXCEPT !.terminal = "error"]
        ELSE opened

FeedOpen(c) ==
    /\ feed.pc = "closed"
    /\ feed' = Serve(OpenFeed(c), store)
    /\ UNCHANGED <<store, submitted, saved, tasks, mcpClient, resumeCalls, resp, env, call,
                   mergeLog, otherRun>>

\* the client of an ended feed, who started from last_message_index = 0, opens
\* the next one; its last_message_index is the number of update events it holds
\* (feed.earlier: history, the events of its feeds before this one)
FeedReopen ==
    /\ feed.pc = "ended"
    /\ feed.connection < MaxConnections
    /\ feed.cursor = Len(feed.earlier)
    /\ feed' = Serve([OpenFeed(feed.cursor + Len(feed.emitted)) EXCEPT
                         !.earlier = feed.earlier \o feed.emitted,
                         !.connection = feed.connection + 1],
                     store)
    /\ UNCHANGED <<store, submitted, saved, tasks, mcpClient, resumeCalls, resp, env, call,
                   mergeLog, otherRun>>

\* lines 271-287: the record is read and its messages are counted
FeedPoll ==
    /\ feed.pc = "poll"
    /\ LET current_message_count == Len(Get(store, "messages", <<>>))
       IN  feed' = IF store = EmptyDict
                   THEN [feed EXCEPT !.pc = "ended"]
                   ELSE IF current_message_count > feed.last_message_count
                   THEN [feed EXCEPT !.pc = "counted",
                                     !.current_message_count = current_message_count]
                   ELSE StateCheck(feed, store)
    /\ UNCHANGED <<store, submitted, saved, tasks, mcpClient, resumeCalls, resp, env, call,
                   mergeLog, otherRun>>

\* lines 291-297: the new messages are sliced off the stored list, which a stage
\* running on a worker thread may have appended to since line 285 counted it,
\* and yielded; last_message_count becomes the count of line 285
FeedSlice ==
    /\ feed.pc = "counted"
    /\ LET new_messages == Unseen(Get(store, "messages", <<>>), feed.last_message_count)
       IN  feed' = [feed EXCEPT !.pc = "state",
                                !.emitted = @ \o TsOf(new_messages),
                                !.last_message_count = feed.current_message_count]
    /\ UNCHANGED <<store, submitted, saved, tasks, mcpClient, resumeCalls, resp, env, call,
                   mergeLog, otherRun>>

\* lines 303-371 after the update events were yielded
FeedState ==
    /\ feed.pc = "state"
    /\ feed' = StateCheck(feed, store)
    /\ UNCHANGED <<store, submitted, saved, tasks, mcpClient, resumeCalls, resp, env, call,
                   mergeLog, otherRun>>

\* lines 347-371 after the state event was yielded
FeedTerminal ==
    /\ feed.pc = "terminal"
    /\ feed' = TerminalCheck(feed, store)
    /\ UNCHANGED <<store, submitted, saved, tasks, mcpClient, resumeCalls, resp, env, call,
                   mergeLog, otherRun>>

\* line 271: range(600) is exhausted
FeedTimeout ==
    /\ feed.pc = "poll"
    /\ feed' = [feed EXCEPT !.pc = "ended"]
    /\ UNCHANGED <<store, submitted, saved, tasks, mcpClient, resumeCalls, resp, env, call,
                   mergeLog, otherRun>>

InitFeed ==
    /\ store = EmptyDict
    /\ submitted = <<>>
    /\ saved = [exists |-> FALSE]
    /\ tasks = IdleTasks
    /\ mcpClient = "unset"
    /\ resumeCalls = 0
    /\ resp = [op |-> "none"]
    /\ env = FeedEnv
    /\ call = NoCall
    /\ feed = NoFeed
    /\ mergeLog = {}
    /\ otherRun = EmptyDict

\* artist_agent runs on a worker thread
ThreadStep(t) ==
    \/ ArtistInvoke(t)
    \/ \E prompts \in Outcomes : ArtistPrompts(t, prompts)
    \/ \E image \in Outcomes : ArtistGen(t, image)
    \/ ArtistFinal(t)

\* what runs on the event loop, one callback at a time
LoopStep ==
    \/ CreateRun
    \/ StartWorkflow
    \/ \E t \in 1..MaxTasks :
          \/ ContinueWorkflow(t)
          \/ Superstep(t)
          \/ LoreInvoke(t)
          \/ \E llm \in Outcomes : LoreReturn(t, llm)
          \/ VoteInvoke(t)
          \/ \E client \in Outcomes, vote_id \in VoteIds \cup {"raise"} :
                VoteReturn(t, client, vote_id)
          \/ \E client \in Outcomes : TallyInvoke(t, client)
          \/ \E reply \in StatusReplies : TallyPoll(t, reply)
          \/ \E reply \in StatusReplies : TallyFinal(t, reply)
          \/ \E reply \in TallyReplies : TallyVoteReturn(t, reply)
          \/ \E client \in Outcomes : MintInvoke(t, client)
          \/ \E pin \in Outcomes : MintPin(t, pin)
          \/ \E close \in {"skip", "tx", "raise"} : MintClose(t, close)
          \/ \E tx \in Outcomes : MintTx(t, tx)
    \/ \E request \in Requests : Resume(request)
    \/ \E c \in 0..MaxCursor : FeedOpen(c)
    \/ FeedReopen
    \/ FeedPoll
    \/ FeedState
    \/ FeedTerminal
    \/ FeedTimeout

\* between lines 285 and 291 the generator does not await: only the worker
\* thread runs in between
NextFeed ==
    \/ feed.pc # "counted" /\ LoopStep
    \/ \E t \in 1..MaxTasks : ThreadStep(t)
    \/ FeedSlice

SpecFeed == InitFeed /\ [][NextFeed]_vars

\* C5: the update events of a feed opened with cursor c are the stored messages
\* from index c on, in log order, none skipped and none emitted twice: at every
\* moment they are a prefix of that part of the stored list.
C5_FeedEmitsStoredSuffixOnce ==
    feed.pc # "closed" =>
        LET unseen == TsOf(Unseen(Get(store, "messages", <<>>), feed.cursor))
        IN  /\ Len(feed.emitted) <= Len(unseen)
            /\ feed.emitted = SubSeq(unseen, 1, Len(feed.emitted))

-----------------------------------------------------------------------------
(* Tally runs: tally_vote_agent applied to the records it may be handed *)

Vote(vote_id) == [kind |-> "vote", id |-> vote_id, result |-> Null]

TallyVotes == {Null} \cup {Vote(vote_id) : vote_id \in VoteIds}

TallyArts ==
    {Null, ArtSet(<<>>), ArtSet(<<"ipfs://img1">>), ArtSet(<<"ipfs://img1", "ipfs://img2">>)}

\* the graph state the tally node is invoked on
TallyValues(vote, art) ==
    [initial_state EXCEPT !.lore = LorePack("llm"), !.art = art, !.vote = vote]

InitTally ==
    /\ \E vote \in TallyVotes, art \in TallyArts :
          /\ store = TallyValues(vote, art)
          /\ saved = [exists |-> TRUE, values |-> TallyValues(vote, art), next |-> "tally"]
          /\ tasks = [t \in 1..MaxTasks |->
                         IF t = 1
                         THEN [NewTask(1, "ready") EXCEPT !.next = "tally",
                                                          !.values = TallyValues(vote, art)]
                         ELSE [pc |-> "idle"]]
    /\ submitted = <<>>
    /\ mcpClient \in {"unset", "ok"}
    /\ resumeCalls = 1
    /\ resp = [op |-> "none"]
    /\ env \in {TallyEnv, QuietEnv}
    /\ call = NoCall
    /\ feed = NoFeed
    /\ mergeLog = {"lore", "artist", "vote"}
    /\ otherRun = EmptyDict

NextTally ==
    \/ \E client \in Outcomes : TallyInvoke(1, client)
    \/ \E reply \in StatusReplies : TallyPoll(1, reply)
    \/ \E reply \in StatusReplies : TallyFinal(1, reply)
    \/ \E reply \in TallyReplies : TallyVoteReturn(1, reply)

SpecTally == InitTally /\ [][NextTally]_vars

-----------------------------------------------------------------------------
(* Properties of resume_run and of the workflow driver, for pipeline runs *)

\* C2: on a record whose stored checkpoint is null every resume request leaves
\* the record as it is, starts no continuation and is answered with
\* "already_completed" and the record.
C2_ResumeOnNullCheckpointIsNoOp ==
    (store # EmptyDict /\ Get(store, "checkpoint", None) = None) =>
        \A request \in Requests :
            LET r == resume_run(store, request, SystemTs)
            IN  /\ r.store = store
                /\ ~r.scheduled
                /\ r.reply = [status |-> 200, body |-> "already_completed", state |-> store]

\* a resume request was answered "already_completed"
C2_AnsweredAlreadyCompleted ==
    /\ store # EmptyDict /\ Get(store, "checkpoint", None) = None
    /\ resp.op = "resume" /\ Get(resp, "body", "") = "already_completed"

\* the task is inside a stage function, or has its partial in hand
InStage(t) == tasks[t].pc \notin {"idle", "scheduled", "ready", "done"}

PrevNode(node) ==
    CASE node = "artist" -> "lore"
      [] node = "vote" -> "artist"
      [] node = "tally" -> "vote"
      [] node = "mint" -> "tally"

\* C3: while a task is in any stage but the first, the stage before it is in
\* the merge log and every message of the state the stage was invoked on (the
\* partials of all earlier stages) is in the run store.
C3_PreviousPartialMergedFirst ==
    \A t \in 1..MaxTasks :
        (InStage(t) /\ tasks[t].next # "lore") =>
            /\ PrevNode(tasks[t].next) \in mergeLog
            /\ TsSet(tasks[t].values.messages) \subseteq TsSet(Get(store, "messages", <<>>))

\* a continuation started by resume is inside the vote stage, after artist
C3_ContinuationInLaterStage ==
    \E t \in 1..MaxTasks :
        /\ tasks[t].pc = "vote.start" /\ tasks[t].id > 0
        /\ \E i \in DOMAIN tasks[t].values.messages :
              tasks[t].values.messages[i].ts[2] = "artist.done"

Quiescent == \A t \in 1..MaxTasks : tasks[t].pc \in {"idle", "done"}

\* C6: whenever the workflow is suspended after lore and before artist the
\* stored record has checkpoint "lore_approval" and no error, and every partial
\* the lore stage returns carries that checkpoint.
C6_PausedAfterLoreAtLoreApproval ==
    /\ (saved.exists /\ saved.next = "artist" /\ Quiescent) =>
           /\ Get(store, "checkpoint", None) = "lore_approval"
           /\ Get(store, "error", None) = None
    /\ \A t \in 1..MaxTasks :
           (tasks[t].pc = "returned" /\ tasks[t].next = "lore") =>
               Get(tasks[t].partial, "checkpoint", None) = "lore_approval"

\* C7: a run that has its mint output and no error, and is paused with no
\* workflow task alive, has a request naming its checkpoint that clears the
\* checkpoint, so that the run can become Completed.
C7_PausedMintCanComplete ==
    (/\ Quiescent
     /\ Get(store, "mint", Null) # Null
     /\ Get(store, "error", None) = None
     /\ Get(store, "checkpoint", None) # None) =>
        \E request \in Requests :
            /\ request.checkpoint = store["checkpoint"]
            /\ Get(resume_run(store, request, SystemTs).store, "checkpoint", None) = None

OutputKey(node) ==
    CASE node = "lore" -> "lore"
      [] node = "artist" -> "art"
      [] node = "vote" -> "vote"
      [] node = "tally" -> "vote"
      [] node = "mint" -> "mint"

StageAgent(node) ==
    CASE node = "lore" -> "Lore"
      [] node = "artist" -> "Artist"
      [] node = "vote" -> "Vote"
      [] node = "tally" -> "Vote"
      [] node = "mint" -> "Mint"

HasMessage(partial, agent, level) ==
    \E i \in DOMAIN Get(partial, "messages", <<>>) :
        partial["messages"][i].agent = agent /\ partial["messages"][i].level = level

\* C9: the partial of a stage invocation in which a collaborator call failed
\* for good either carries the stage output and a warning message of the stage,
\* or an error and an error message.
C9_FailureIsFallbackOrError ==
    \A t \in 1..MaxTasks :
        (tasks[t].pc = "returned" /\ tasks[t].gave_up) =>
            LET partial == tasks[t].partial
                node == tasks[t].next
            IN  \/ /\ Get(partial, OutputKey(node), Null) # Null
                   /\ HasMessage(partial, StageAgent(node), "warning")
                \/ /\ Get(partial, "error", None) # None
                   /\ HasMessage(partial, StageAgent(node), "error")

-----------------------------------------------------------------------------
(* Properties of tally_vote_agent, for tally runs *)

\* C4: the polling loop makes at most max_polls passes: the pass counter never
\* exceeds max_polls and every step that stays in the loop increases it by one.
C4_AtMostMaxPolls ==
    /\ [](tasks[1].pc \in {"tally.poll", "tally.final", "tally.tally", "returned"} =>
             tasks[1].poll_count <= max_polls)
    /\ [][(tasks[1].pc = "tally.poll" /\ tasks'[1].pc = "tally.poll") =>
             tasks'[1].poll_count = tasks[1].poll_count + 1]_vars

\* the loop ran out of passes with the vote still open
C4_LoopExhausted ==
    tasks[1].pc = "tally.final" /\ tasks[1].poll_count = max_polls

\* the stage was invoked with a vote id and art present
TallyHasInputs ==
    /\ tasks[1].values.vote # Null /\ tasks[1].values.vote.id # ""
    /\ tasks[1].values.art # Null

\* C8: when every status reply is "open, no vote cast, ends_at passed" and the
\* art set has options, the stage returns the first option as winner with tally
\* {0: 1} and participation 1, marked as fallback.
C8_QuietVoteResolvedByTimeout ==
    (/\ env = QuietEnv
     /\ tasks[1].pc = "returned"
     /\ TallyHasInputs
     /\ tasks[1].values.art.cids # <<>>) =>
        LET vote == tasks[1].partial.vote
        IN  /\ vote.result.winner_cid = tasks[1].values.art.cids[1]
            /\ vote.result.tally = ("0" :> 1)
            /\ vote.result.participation = 1
            /\ Get(vote, "fallback", FALSE) = TRUE

\* the quiet vote was polled and resolved
C8_QuietVoteReturned ==
    /\ env = QuietEnv
    /\ tasks[1].pc = "returned" /\ tasks[1].poll_count >= 1
    /\ TallyHasInputs
    /\ tasks[1].values.art.cids # <<>>
    /\ HasMessage(tasks[1].partial, "Vote", "warning")

\* C10: invoked with a vote id and art present, the stage returns a partial
\* whose vote has a result, whatever the status queries, the final tally and
\* the client construction did.
C10_TallyAlwaysResolves ==
    (tasks[1].pc = "returned" /\ TallyHasInputs) =>
        /\ "vote" \in DOMAIN tasks[1].partial
        /\ Get(tasks[1].partial.vote, "result", Null) # Null

\* the stage returned from its outermost except clause
C10_ResolvedAfterFailure ==
    /\ tasks[1].pc = "returned" /\ TallyHasInputs
    /\ HasMessage(tasks[1].partial, "Vote", "error")
    /\ Get(tasks[1].partial.vote, "result", Null) # Null

-----------------------------------------------------------------------------
(* Properties of the run record and of the stage order, for pipeline runs *)

\* C11: no stage function runs on a state whose error is set: once a stage's
\* partial has set error, the graph invokes no later stage.
C11_NoStageAfterError ==
    \A t \in 1..MaxTasks :
        InStage(t) => Field(tasks[t].values, "error") = None

\* the modes of a record that hold at once
Modes(rec) ==
    {mode \in {"checkpoint", "error", "complete"} :
        \/ mode = "checkpoint" /\ Field(rec, "checkpoint") # None
        \/ mode = "error" /\ Field(rec, "error") # None
        \/ mode = "complete" /\ Field(rec, "mint") # Null}

\* C12: at every instant at most one of "checkpoint set", "error set" and
\* "mint present" holds of the stored record.
C12_AtMostOneMode == Cardinality(Modes(store)) <= 1

\* the write of key that a step makes is none, or one the record allows: the
\* first write, the tally stage resolving the vote, an edit supplied by resume
KeptOrAllowed(key) ==
    LET old == Field(store, key)
        new == Field(store', key)
    IN  \/ old = NoneOf(key)
        \/ new = old
        \/ /\ key = "vote" /\ new # Null
           /\ old.result = Null /\ new.id = old.id /\ new.result # Null
        \/ key = "lore" /\ new = LorePack("edited")

\* C13: a stage output of the stored record, once written, is not replaced by a
\* different value nor reset to null by any later step, but for the tally stage
\* setting vote.result and for an edit supplied by resume.
C13_StageOutputsKept ==
    [][\A key \in {"lore", "art", "vote", "mint"} : KeptOrAllowed(key)]_vars

StoredMessages == Get(store, "messages", <<>>)

IsPrefix(s, t) == Len(s) <= Len(t) /\ s = SubSeq(t, 1, Len(s))

\* C14: the stored messages only grow: every step leaves the earlier list as a
\* prefix of the later one, and no ts is ever stored twice.
C14_MessagesGrowWithoutRepeats ==
    /\ [](\A i, j \in DOMAIN StoredMessages :
             StoredMessages[i].ts = StoredMessages[j].ts => i = j)
    /\ [][IsPrefix(StoredMessages, Get(store', "messages", <<>>))]_vars

\* the artist stage has flushed its start message and its chunk, which holds
\* that message again, has been merged
C14_FlushedMessageMergedAgain ==
    /\ "artist" \in mergeLog
    /\ \E i \in DOMAIN StoredMessages : StoredMessages[i].ts[2] = "artist.start"

-----------------------------------------------------------------------------
(* Properties of runs whose resume requests may arrive at any time *)

\* C15: at every instant at most one workflow task of the run is inside a
\* stage function.
C15_OneStageInFlight ==
    Cardinality({t \in 1..MaxTasks : Running(t)}) <= 1

-----------------------------------------------------------------------------
(* Properties of the endpoints' answers, for pipeline runs *)

\* C16: while the stored checkpoint is set, a resume request naming another
\* checkpoint is answered 400, leaves the record as it is and starts no
\* continuation.
C16_MismatchedCheckpointRejected ==
    Field(store, "checkpoint") # None =>
        \A request \in Requests :
            request.checkpoint # store["checkpoint"] =>
                LET r == resume_run(store, request, SystemTs)
                IN  /\ r.reply.status = 400
                    /\ r.store = store
                    /\ ~r.scheduled

\* C17: a GET or a resume request for a run that has no record is answered 404,
\* and the run still has no record.
C17_UnknownRunAnswered404 ==
    (store = EmptyDict /\ resp.op \in {"get", "resume"}) => resp.status = 404

\* C18: a merge on a run that has no record is an error and leaves the store
\* unchanged: it never brings a record into existence.
C18_MergeNeverCreatesRecord == [][store = EmptyDict => store' = EmptyDict]_vars

\* C19: no reader observes some but not all fields of one partial applied: when
\* the feed has served the artist stage's final message, the record it reads
\* holds the art output that the same partial carries.
C19_FinalMessageServedWithArt ==
    feed.pc # "closed" =>
        ((\E i \in DOMAIN feed.emitted : feed.emitted[i][2] = "artist.done")
            => Field(store, "art") # Null)

\* C20: once the record has error set or the mint output present, no later
\* operation changes any field of it.
C20_TerminalRecordImmutable ==
    [][(Field(store, "error") # None \/ Field(store, "mint") # Null)
          => store' = store]_vars

-----------------------------------------------------------------------------
(* Request runs: one _make_request call of a client built with max_retries *)

InitRequest ==
    /\ store = EmptyDict
    /\ submitted = <<>>
    /\ saved = [exists |-> FALSE]
    /\ tasks = IdleTasks
    /\ mcpClient = "ok"
    /\ resumeCalls = 0
    /\ resp = [op |-> "none"]
    /\ env = [patience |-> 0]
    /\ call \in {[pc |-> "idle", max_retries |-> n, attempt |-> 0, replies |-> <<>>,
                  value |-> "none"] : n \in 0..MaxRetries}
    /\ feed = NoFeed
    /\ mergeLog = {}
    /\ otherRun = EmptyDict

NextRequest ==
    \/ MakeRequest
    \/ \E reply \in Replies : Attempt(reply)
    \/ RetryDelay

SpecRequest == InitRequest /\ [][NextRequest]_vars

CallEnded == call.pc \in {"returned", "raised"}

LastReply == call.replies[Len(call.replies)]

\* C21: _make_request makes at most max_retries + 1 HTTP attempts; every attempt
\* but the last ended in a request error; a call whose last allowed attempt
\* fails with a request error raises; a 4xx or 5xx reply or an invalid JSON body
\* raises at once; the first successful reply is returned at once.
C21_RetriesOnlyRequestErrors ==
    call.pc # "none" =>
        /\ Len(call.replies) <= call.max_retries + 1
        /\ \A i \in 1..(Len(call.replies) - 1) : call.replies[i].kind = "request_error"
        /\ call.replies # <<>> =>
              /\ LastReply.kind = "request_error" =>
                    IF Len(call.replies) = call.max_retries + 1
                    THEN call.pc = "raised" /\ call.value = "MCPNetworkError"
                    ELSE ~CallEnded
              /\ (LastReply.kind = "response"
                    /\ (LastReply.status_code >= 400 \/ LastReply.body # "json"))
                    => call.pc = "raised" /\ call.value # "MCPNetworkError"
              /\ (LastReply.kind = "response" /\ LastReply.status_code < 400
                    /\ LastReply.body = "json")
                    => call.pc = "returned"

C21_ReturnedAfterRetry ==
    /\ call.pc = "returned"
    /\ Len(call.replies) > 1

\* C22: whenever the stored checkpoint is non-null the pipeline is suspended:
\* no stage is executing.
C22_CheckpointMeansSuspended ==
    Field(store, "checkpoint") # None => \A t \in 1..MaxTasks : ~Running(t)

\* the step invokes the stage function of the node task t is at
Invoked(t) == tasks[t].pc = "ready" /\ tasks'[t].pc # "ready"

\* C23: a stage is invoked at most once per run and in the order lore, artist,
\* vote, tally, mint: when a stage is invoked it has neither completed before nor
\* is it in flight in another task, and the stage before it has completed.
C23_EachStageOnceInOrder ==
    [][\A t \in 1..MaxTasks :
          Invoked(t) =>
              /\ tasks[t].next \notin mergeLog
              /\ \A u \in 1..MaxTasks :
                    (u # t /\ InStage(u)) => tasks[u].next # tasks[t].next
              /\ tasks[t].next # "lore" => PrevNode(tasks[t].next) \in mergeLog]_vars

\* C24: after a resume with decision "edit" and payload lore = L the
\* continuation invokes the generation stage on a state whose lore is L, and the
\* stored lore is still L once the continuation has started.
C24_EditedLoreReachesArtist ==
    [][\A t \in 1..MaxTasks :
          (/\ Field(store, "lore") = LorePack("edited")
           /\ tasks[t].pc = "scheduled"
           /\ tasks'[t].pc = "ready")
          => /\ tasks'[t].values.lore = LorePack("edited")
             /\ Field(store', "lore") = LorePack("edited")]_vars

HasTag(partial, tag) ==
    \E i \in DOMAIN Get(partial, "messages", <<>>) : partial["messages"][i].ts[2] = tag

\* C25: when a status reply of the polling loop reported the vote closed or a
\* nonzero count, the stage does not resolve by the index-0 timeout: its result
\* comes from the tally_vote call (or from the fallback of that call's failure).
C25_TimeoutOnlyWhenNothingObserved ==
    \A t \in 1..MaxTasks :
        (tasks[t].pc = "returned" /\ tasks[t].next = "tally" /\ tasks[t].observed)
        => ~HasTag(tasks[t].partial, "tally.timeout")

\* the step is one pass of task t through the polling loop
Polled(t) == tasks[t].pc = "tally.poll" /\ tasks'[t] # tasks[t]

\* C26: as soon as a status reply with is_open = true shows a nonzero count and
\* at least half of max_polls iterations have been made, the loop stops polling
\* at that iteration.
C26_SmartCompletionEndsLoop ==
    [][\A t \in 1..MaxTasks :
          (/\ Polled(t)
           /\ tasks'[t].last_poll = "votes"
           /\ 2 * tasks[t].poll_count >= max_polls)
          => tasks'[t].pc = "tally.final"]_vars

\* C27: a failed status query on poll k < max_polls is followed by poll k + 1;
\* a failed query ends the loop only on poll max_polls.
C27_FailedQueryKeepsPolling ==
    [][\A t \in 1..MaxTasks :
          (Polled(t) /\ tasks'[t].last_poll = "failed")
          => IF tasks[t].poll_count < max_polls
             THEN /\ tasks'[t].pc = "tally.poll"
                  /\ tasks'[t].poll_count = tasks[t].poll_count + 1
             ELSE tasks'[t].pc = "tally.final"]_vars

C27_PolledOnAfterFailure ==
    \E t \in 1..MaxTasks :
        /\ tasks[t].pc = "tally.poll"
        /\ tasks[t].last_poll = "failed"
        /\ tasks[t].poll_count = max_polls

-----------------------------------------------------------------------------
(* Properties of the feed's terminal and state events *)

\* the step yields the feed's terminal event
TerminalEmitted ==
    /\ feed'.pc # "closed" /\ feed'.terminal # "none"
    /\ feed.pc = "closed" \/ feed.terminal = "none"

\* C28: a feed emits at most one terminal event and it is its last event; for
\* a run that has a record it is emitted only when the run is completed or
\* failed and not paused (checkpoint null), and after every message stored at
\* that moment has been emitted.
C28_TerminalEventLastAndNotWhilePaused ==
    [][/\ (feed.pc # "closed" /\ feed.terminal # "none") => feed' = feed
       /\ (TerminalEmitted /\ store # EmptyDict) =>
             /\ IsComplete(store) \/ HasError(store)
             /\ Field(store, "checkpoint") = None
             /\ feed'.cursor + Len(feed'.emitted) >= Len(StoredMessages)]_vars

\* lines 319-327: the state_update of the state event the poll yields
state_update(rec) == Snapshot(rec)

\* the step is the state check of a poll, lines 303-345
StateChecked ==
    \/ feed.pc = "state" /\ feed' # feed
    \/ feed.pc = "poll" /\ feed'.pc \in {"terminal", "ended", "poll"} /\ feed' # feed
          /\ store # EmptyDict /\ Len(StoredMessages) <= feed.last_message_count

\* C29: the state check of a poll yields a state event exactly when some state
\* key differs from the previous snapshot of the feed, and the event lists a
\* key if and only if its value is non-null and differs from that snapshot.
C29_StateEventListsChangedKeys ==
    [][StateChecked =>
          /\ feed'.pc = "terminal" <=>
                (\E key \in StateKeys : Field(store, key) # Field(feed.last_state, key))
          /\ feed'.pc = "terminal" =>
                DOMAIN state_update(store) =
                    {key \in StateKeys : /\ Field(store, key) # NoneOf(key)
                                         /\ Field(store, key) # Field(feed.last_state, key)}]_vars

\* C30: a client that started from cursor 0 and reopens its feed with the number
\* of update events it holds has received, over all its feeds, the stored
\* messages in log order, none skipped and none twice: at every moment its
\* events are a prefix of the stored list.
C30_ReconnectResumesLog ==
    (feed.pc # "closed" /\ feed.connection > 1 /\ feed.cursor = Len(feed.earlier)) =>
        IsPrefix(feed.earlier \o feed.emitted, TsOf(StoredMessages))

-----------------------------------------------------------------------------
(* Properties of failures, of the stages' inputs and of the resume requests *)

\* C31: every stage-level failure leaves a message that describes it: a record
\* with error set holds an error-severity message, and the partial of a stage
\* invocation in which a collaborator call failed for good carries a warning or
\* an error message of the stage.
C31_EveryFailureHasMessage ==
    /\ Field(store, "error") # None =>
          \E i \in DOMAIN StoredMessages : StoredMessages[i].level = "error"
    /\ \A t \in 1..MaxTasks :
          (tasks[t].pc = "returned" /\ tasks[t].gave_up) =>
              \/ HasMessage(tasks[t].partial, StageAgent(tasks[t].next), "warning")
              \/ HasMessage(tasks[t].partial, StageAgent(tasks[t].next), "error")

\* the step is a stage invocation of task t that raises
Raised(t) == tasks[t].pc \in {"lore.llm", "artist.prompts"} /\ tasks'[t].pc = "done"

\* C32: when a stage invocation raises, the workflow driver makes the record's
\* error non-null and every other field of the record keeps its value.
C32_CrashSetsOnlyError ==
    [][\A t \in 1..MaxTasks :
          Raised(t) =>
              /\ Field(store', "error") # None
              /\ DOMAIN store' = (DOMAIN store) \cup {"error"}
              /\ \A k \in (DOMAIN store) \ {"error"} : store'[k] = store[k]]_vars

C32_CrashedWithOutputsKept ==
    /\ Field(store, "error") = "raised"
    /\ Field(store, "lore") # Null
    /\ Field(store, "checkpoint") # None
    /\ StoredMessages # <<>>

\* C40: lore_agent never raises: for every date_label and every failure of the
\* LLM call it returns a partial update that holds a lore pack or an error.
C40_LoreAgentNeverRaises ==
    [][\A t \in 1..MaxTasks :
          tasks[t].pc = "lore.llm" /\ tasks'[t] # tasks[t] =>
              /\ tasks'[t].pc = "returned"
              /\ \/ Field(tasks'[t].partial, "lore") # Null
                 \/ Field(tasks'[t].partial, "error") # None]_vars

\* the record handed to the stage lacks an output of an earlier stage that the
\* stage needs
MissingRequired(values, stage) ==
    LET NoCids == Get(values.art, "cids", <<>>) = <<>>
    IN  CASE stage = "artist" -> values.lore = Null
          [] stage = "vote"   -> NoCids
          [] stage = "tally"  -> values.vote = Null \/ NoCids \/ Get(values.vote, "id", "") = ""
          [] stage = "mint"   -> \/ values.lore = Null
                                 \/ Get(values.vote, "result", Null) = Null
                                 \/ NoCids
          [] OTHER            -> FALSE

C34_MessagesStoredBeforeReturn ==
    \A t \in 1..MaxTasks :
        tasks[t].pc = "returned" =>
            TsSet(Get(tasks[t].partial, "messages", <<>>)) \subseteq TsSet(StoredMessages)

\* C35: once POST /runs has answered with a run_id the record of the run is in
\* the store: a GET /runs/{run_id} that follows is never answered "Run not found".
C35_RecordExistsOnceCreated ==
    (tasks[1].pc # "idle" /\ resp.op = "get") => resp.status = 200

\* after is before with partial merged in: the fields partial names, messages
\* aside, have partial's value, and the fields it does not name are as before
Framed(before, after, partial) ==
    /\ DOMAIN after = (DOMAIN before) \cup (DOMAIN partial)
    /\ \A k \in (DOMAIN partial) \ {"messages"} : after[k] = partial[k]
    /\ \A k \in (DOMAIN before) \ (DOMAIN partial) : after[k] = before[k]

C37_OnlyAcceptedResumeContinues ==
    [][resumeCalls' # resumeCalls =>
          /\ Field(store, "checkpoint") \in {"lore_approval", "finalize_mint"}
          /\ Field(store', "checkpoint") = None]_vars

\* the run is paused: no workflow task of it is alive
Paused == \A t \in 1..MaxTasks : tasks[t].pc \in {"idle", "done"}

\* C38: whatever checkpoint a paused run is at, a resume request that names it,
\* carries the decision the client sends for it (finalize at finalize_mint,
\* approve at the others) and is answered "resumed" leaves the stored checkpoint
\* null.
C38_ResumedClearsNamedCheckpoint ==
    (Paused /\ ~NoCheckpoint(store)) =>
        \A request \in env.requests :
            LET r == resume_run(store, request, SystemTs)
            IN  (request.checkpoint = Field(store, "checkpoint")
                 /\ request.decision = (IF request.checkpoint = "finalize_mint"
                                        THEN "finalize" ELSE "approve")
                 /\ r.reply.body = "resumed") =>
                    Field(r.store, "checkpoint") = None

\* C39: the vote a tally invocation returns is marked a fallback exactly when
\* its result was not taken from the ledger's tally (timeout, failed tally_vote
\* call, emergency handler).
C39_FallbackFlagIffNotTallied ==
    \A t \in 1..MaxTasks :
        (/\ tasks[t].pc = "returned" /\ tasks[t].next = "tally"
         /\ Get(Field(tasks[t].partial, "vote"), "result", Null) # Null) =>
            (Get(tasks[t].partial.vote, "fallback", FALSE)
                <=> ~HasMessage(tasks[t].partial, "Vote", "success"))

====
